---- MODULE Spec2Model ----
(***************************************************************************)
(* Model of the ExclusivePtr crate: an exclusive-access cell offering      *)
(* load / store_direct / exchange_direct / load_linked / store_conditional *)
(* over its backends:                                                      *)
(*   "generic" : src/src/generic.rs  (two AtomicUsize fields and a Mutex)   *)
(*   "cas"     : src/src/exclusive_target/cas_impl/exclusive_64.rs          *)
(*               (value and counter side by side, lock cmpxchg16b)          *)
(*   "llsc"    : src/src/exclusive_target/llsc_impl/exclusive_aarch64.rs    *)
(*               (one word, load-exclusive / store-exclusive)               *)
(* Every atomic memory access of the code is one step of the model, so     *)
(* that threads interleave between the two loads of get_vals and between   *)
(* the two stores of the generic cas.  Accesses are taken in program order *)
(* (sequentially consistent interleaving).                                 *)
(***************************************************************************)
EXTENDS Integers, Sequences, FiniteSets, TLC

\* ---------------------------------------------------------------- bounds
W == 3                      \* modelled width of usize, in bits
NumThreads == 2             \* threads sharing the cell
MaxOps == 4                 \* calls made in one run of the free workload
MaxVal == 1                 \* payload inputs are drawn from 0..MaxVal
NumRun == 2                 \* num_run of test_mt_cas (increments per thread)

WordMod == 2 ^ W
Word == 0 .. (WordMod - 1)
Threads == 1 .. NumThreads
\* the threads of the contended workload: one more than the free workload
\* has, so that two threads can load while a third is inside its store
Racers == 1 .. (NumThreads + 1)
Backends == {"generic", "cas"}
\* the native load-exclusive / store-exclusive backend (llsc_impl)
AllBackends == Backends \cup {"llsc"}
\* std::sync::atomic::Ordering
Orderings == {"Relaxed", "Acquire", "Release", "AcqRel", "SeqCst"}
Types == {"usize", "isize", "ptr", "bool"}
\* word-aligned addresses at which the three-word Llsc may be placed
Placements == {16, 24}
\* the same for the 32-bit cell of x86 (4-byte words)
Placements32 == {16, 20}
\* target_arch values told apart by the cfg attributes of lib.rs
Archs == {"x86_64", "x86", "aarch64", "arm", "powerpc", "powerpc64", "other"}

VARIABLES
    arch,       \* target_arch the crate is built for
    oracle,     \* the generic fallback run alongside on the same calls
    backend,    \* which backend the build selected
    T,          \* payload type parameter of ExclusiveData<T>
    addr,       \* address of the Llsc struct (cas backend)
    data,       \* Llsc: <<val, counter, extra>>
    m,          \* Llsc.m of the generic backend: 0 = free, else the holder
    pc,         \* per thread: position inside the current call
    op,         \* per thread: the public operation being executed
    arg,        \* per thread: the word argument (val.to_usize())
    loc,        \* per thread: locals of the running function
    ll,         \* per thread: the LinkedData it holds
    ret,        \* per thread: what its last call returned
    lastsc,     \* per thread: record of its last conditional store
    nops,       \* number of calls made so far (also a logical clock)
    opno,       \* per thread: sequence number of its current/last call
    hist,       \* history of the writes that took effect on the cell
    runs,       \* per thread: iterations of test_mt_cas started
    monitor     \* per thread: its exclusive monitor is armed on the cell

vars == <<arch, oracle, backend, T, addr, data, m, pc, op, arg, loc, ll, ret, lastsc,
          nops, opno, hist, runs, monitor>>

\* ------------------------------------------------------ program constants
\* mask of get_ptr: `& !PTR_MOD` in exclusive_64.rs, `& !7` in exclusive_32.rs
PTR_MOD == IF arch = "x86" THEN 7 ELSE 15
\* size of a word of the cell: usize, u32 in exclusive_32.rs
WordBytes == IF arch = "x86" THEN 4 ELSE 8

\* ------------------------------------------------------------ word codec
\* the values of type T the model passes in
Payloads(ty) ==
    CASE ty = "bool"  -> BOOLEAN
      [] ty = "isize" -> (-1) .. (MaxVal - 1)
      [] OTHER        -> 0 .. MaxVal

\* IsUsize::to_usize     (`*self as usize`)
to_usize(ty, x) ==
    CASE ty = "bool"  -> (IF x THEN 1 ELSE 0)
      [] OTHER        -> x % WordMod

\* IsUsize::from_usize
from_usize(ty, w) ==
    CASE ty = "bool"  -> (w = 0)
      [] ty = "isize" -> (IF w >= WordMod \div 2 THEN w - WordMod ELSE w)
      [] OTHER        -> w

\* an addition that stops at the largest word instead of wrapping
saturating_add(a, b) == IF a + b >= WordMod THEN WordMod - 1 ELSE a + b

\* usize::wrapping_add
wrapping_add(a, b) == (a + b) % WordMod

\* ------------------------------------------------------------ cell layout
\* the address of the counter field taken as it is, without the mask
get_ptr_unmasked(a) == a + WordBytes

\* Llsc::get_ptr of the cas backend: (&self.counter as usize) & !PTR_MOD
get_ptr(a) ==
    LET c == a + WordBytes IN c - (c % (PTR_MOD + 1))

\* index in data of the word holding the value, and of the one holding the
\* version: the fields val/counter in generic.rs, *ptr and *ptr.offset(1)
\* in the cas backend.  The native backend has the single word `data`
\* (slot 1) and no version: slot 2 stays 0 there.
ValSlot ==
    IF backend = "cas"
    THEN ((get_ptr(addr) - addr) \div WordBytes) + 1
    ELSE 1
VerSlot == ValSlot + 1

CellNow == <<data[ValSlot], data[VerSlot]>>

\* ------------------------------------------------------------ decisions
\* a plain compare-and-swap: the counter is not compared
cas_test_value_only(cval, c_counter, oval, ctr) ==
    cval = oval

\* a version check that forgets the value
cas_test_counter_only(cval, c_counter, oval, ctr) ==
    c_counter = ctr

\* the two comparisons with their right-hand sides exchanged
cas_test_swapped(cval, c_counter, oval, ctr) ==
    cval = ctr /\ c_counter = oval

\* the test of Llsc::cas in generic.rs
cas_test(cval, c_counter, oval, ctr) ==
    cval = oval /\ c_counter = ctr

\* a failure that hands back a pair it never read
cas_fail_res_zero(cval, c_counter, oval, ctr) == <<0, 0>>

\* a failure that hands the caller's own stale pair back
cas_fail_res_stale(cval, c_counter, oval, ctr) == <<oval, ctr>>

\* a failure that hands back the two words it read in the wrong order
cas_fail_res_swapped(cval, c_counter, oval, ctr) == <<c_counter, cval>>

\* what Llsc::cas returns as second component when the test fails
cas_fail_res(cval, c_counter, oval, ctr) == <<cval, c_counter>>

\* a compare-and-swap that reports failure whatever it finds
cas_tagged_spurious(cur, old, nval) ==
    [succ |-> FALSE, res |-> cur, mem |-> cur]

\* a cas_tagged that bumps the counter only when the value changes
cas_tagged_lazy(cur, old, nval) ==
    IF cur = old
    THEN [succ |-> TRUE,  res |-> old,
          mem |-> <<nval, IF nval = old[1] THEN old[2]
                          ELSE wrapping_add(old[2], 1)>>]
    ELSE [succ |-> FALSE, res |-> cur, mem |-> cur]

\* multi_size::cas_tagged: lock cmpxchg16b on the pair cur = <<*ptr, *(ptr+1)>>
\* with rdx:rax = old and rcx:rbx = <<nval, old.1 + 1>>.
cas_tagged(cur, old, nval) ==
    IF cur = old
    THEN [succ |-> TRUE,  res |-> old,
          mem |-> <<nval, wrapping_add(old[2], 1)>>]
    ELSE [succ |-> FALSE, res |-> cur, mem |-> cur]

\* ------------------------------------------------------------ records
NoLink == [kind |-> "none", data |-> <<0, 0>>, from |-> 0, at |-> 0, rops |-> 0,
           ord |-> "Relaxed"]
NoRet  == [op |-> "none", opno |-> 0, val |-> 0, succ |-> FALSE,
           ord |-> "Relaxed"]
NoSc   == [opno |-> 0, used |-> NoLink, casat |-> 0, succ |-> FALSE,
           w |-> 0, nval |-> 0, pre |-> <<0, 0>>, post |-> <<0, 0>>,
           res |-> <<0, 0>>, try |-> FALSE, done |-> FALSE]
NoLoc  == [v |-> 0, c |-> 0, succ |-> FALSE, from |-> 0, x |-> 0,
           ord |-> "Relaxed"]

\* a get that reads the cell again instead of the captured word
get_current(l) == from_usize(T, data[ValSlot])

\* LinkedData::get
get(l) == from_usize(T, l.data[1])

\* one entry of hist
Event(k, cell, x) == [kind |-> k, cell |-> cell, x |-> x]

\* ------------------------------------------------------------ the target
\* the `mod exclusive_target` items of lib.rs whose cfg attribute holds
\* for target_arch = a, each with the backend it re-exports and its
\* IS_LOCK_FREE
exclusive_target(a) ==
    (IF a = "x86_64"
     THEN {[mod |-> "x86_64", backend |-> "cas", IS_LOCK_FREE |-> TRUE]}
     ELSE {})
    \cup
    (IF a = "x86"
     THEN {[mod |-> "x86", backend |-> "cas", IS_LOCK_FREE |-> TRUE]}
     ELSE {})
    \cup
    (IF a = "aarch64"
     THEN {[mod |-> "aarch64", backend |-> "llsc", IS_LOCK_FREE |-> TRUE]}
     ELSE {})
    \cup
    (IF a \notin {"x86_64", "x86", "aarch64", "arm", "powerpc", "powerpc64"}
     THEN {[mod |-> "generic", backend |-> "generic", IS_LOCK_FREE |-> FALSE]}
     ELSE {})

\* the backend the crate's re-exports resolve to; with no exclusive_target
\* item `pub use self::exclusive_target::...` does not resolve and nothing
\* is built
Selected(a) ==
    IF exclusive_target(a) = {}
    THEN "none"
    ELSE (CHOOSE e \in exclusive_target(a) : TRUE).backend

\* the target each backend is checked on when the build is not the subject
ArchOf(b) ==
    CASE b = "cas"  -> "x86_64"
      [] b = "llsc" -> "aarch64"
      [] OTHER      -> "other"

\* ------------------------------------------------------------ the oracle
\* The generic fallback run on one thread: each call of generic.rs taken
\* as a whole.  cell is (val, counter), snap the data of the LinkedData
\* the caller holds, out what the last call returned.
NoOut == [kind |-> "none", val |-> 0, succ |-> FALSE]
OracleOff == [on |-> FALSE, cell |-> <<0, 0>>, held |-> FALSE,
              snap |-> <<0, 0>>, out |-> NoOut]

\* generic::ExclusiveData::new
oracle_new(ty, v0) ==
    [OracleOff EXCEPT !.on = TRUE,
                      !.cell = <<to_usize(ty, v0), to_usize(ty, v0)>>]

\* ------------------------------------------------------------ Init
\* ExclusiveData::new(v0): val and counter both start as v0.to_usize(),
\* extra as 0; the mutex is free; no thread has called anything.  The
\* native backend's cell is the one word data: v0.to_usize().
InitBuild(ar, orc, b, ty, a, v0) ==
    /\ arch = ar
    /\ oracle = orc
    /\ backend = b
    /\ T = ty
    /\ addr = a
    /\ data = <<to_usize(ty, v0),
                 IF b = "llsc" THEN 0 ELSE to_usize(ty, v0), 0>>
    /\ m = 0
    /\ pc = [t \in Racers |-> "idle"]
    /\ op = [t \in Racers |-> "none"]
    /\ arg = [t \in Racers |-> 0]
    /\ loc = [t \in Racers |-> NoLoc]
    /\ ll = [t \in Racers |-> NoLink]
    /\ ret = [t \in Racers |-> NoRet]
    /\ lastsc = [t \in Racers |-> NoSc]
    /\ nops = 0
    /\ opno = [t \in Racers |-> 0]
    /\ hist = << Event("new", <<data[ValSlot], data[VerSlot]>>, v0) >>
    /\ runs = [t \in Racers |-> 0]
    /\ monitor = [t \in Racers |-> FALSE]

\* a cell of backend b on the target b is written for
InitCell(b, ty, a, v0) == InitBuild(ArchOf(b), OracleOff, b, ty, a, v0)

\* the concurrent workloads share an ExclusiveUsize, as test_mt_cas does
Init ==
    \E b \in Backends :
      \E a \in (IF b = "cas" THEN Placements ELSE {16}),
         v0 \in Payloads("usize") :
        InitCell(b, "usize", a, v0)

\* single-threaded use is modelled for every payload type
InitST ==
    \E b \in Backends, ty \in Types :
      \E a \in (IF b = "cas" THEN Placements ELSE {16}), v0 \in Payloads(ty) :
        InitCell(b, ty, a, v0)

\* ------------------------------------------------------------ orderings
\* an atomic load that takes AcqRel for Acquire without complaint
load_rejects_release_only(o) == o = "Release"

\* AtomicUsize::load panics on Release and AcqRel ("there is no such thing
\* as a release load"): self.val.load(ord), load_from(ptr, ord)
load_rejects(o) == o \in {"Release", "AcqRel"}

\* AtomicUsize::store panics on Acquire and AcqRel: store_to(ptr, n, ord)
store_rejects(o) == o \in {"Acquire", "AcqRel"}

\* the match on ord in load_exc: Release | AcqRel => panic!
load_exc_rejects(o) == o \in {"Release", "AcqRel"}

\* the match on ord in store_exc: Acquire | AcqRel => panic
store_exc_rejects(o) == o \in {"Acquire", "AcqRel"}

\* ------------------------------------------------------------ oracle calls
\* generic::ExclusiveData::load: T::from_usize(self.data.get_vals(ord).0)
oracle_load(r, o) ==
    IF load_rejects(o)
    THEN [r EXCEPT !.out = [NoOut EXCEPT !.kind = "panic"]]
    ELSE [r EXCEPT !.out = [NoOut EXCEPT !.kind = "value",
                                         !.val = from_usize(T, r.cell[1])]]

\* generic::ExclusiveData::load_linked
oracle_load_linked(r, o) ==
    IF load_rejects(o)
    THEN [r EXCEPT !.out = [NoOut EXCEPT !.kind = "panic"]]
    ELSE [r EXCEPT !.held = TRUE, !.snap = r.cell,
                   !.out = [NoOut EXCEPT !.kind = "snapshot"]]

\* generic::ExclusiveData::store_direct: set_val, the ordering is unused
oracle_store_direct(r, w, o) ==
    [r EXCEPT !.cell = <<w, r.cell[2]>>,
              !.out = [NoOut EXCEPT !.kind = "unit"]]

\* generic::ExclusiveData::exchange_direct: xchg_val
oracle_exchange_direct(r, w, o) ==
    [r EXCEPT !.cell = <<w, r.cell[2]>>,
              !.out = [NoOut EXCEPT !.kind = "value",
                                    !.val = from_usize(T, r.cell[1])]]

\* generic::LinkedData::store_conditional / try_store_conditional: Llsc::cas
oracle_store_conditional(r, w, try) ==
    IF cas_test(r.cell[1], r.cell[2], r.snap[1], r.snap[2])
    THEN [r EXCEPT !.cell = <<w, wrapping_add(r.snap[2], 1)>>,
                   !.held = FALSE, !.snap = <<0, 0>>,
                   !.out = [NoOut EXCEPT !.kind = "cond", !.succ = TRUE]]
    ELSE [r EXCEPT !.held = ~try,
                   !.snap = IF try THEN <<0, 0>>
                            ELSE cas_fail_res(r.cell[1], r.cell[2],
                                              r.snap[1], r.snap[2]),
                   !.out = [NoOut EXCEPT !.kind = "cond"]]

\* the oracle makes the call too, unless it is not run or has panicked
OracleCall(next) ==
    oracle' = IF oracle.on /\ oracle.out.kind # "panic" THEN next ELSE oracle

\* ------------------------------------------------------------ calls
\* thread t enters public operation o with word argument a at position first
Begin(t, o, a, first) ==
    /\ backend # "none"
    /\ pc[t] = "idle"
    /\ pc' = [pc EXCEPT ![t] = first]
    /\ op' = [op EXCEPT ![t] = o]
    /\ arg' = [arg EXCEPT ![t] = a]

\* the free workload makes at most MaxOps calls and numbers them; its
\* threads are interchangeable, so they are numbered in the order of their
\* first call
Call(t) ==
    /\ nops < MaxOps
    /\ IF t = 1 THEN TRUE ELSE opno[t - 1] > 0
    /\ nops' = nops + 1
    /\ opno' = [opno EXCEPT ![t] = nops + 1]

\* first position of a mutation: the generic backend takes the mutex first
Entry(direct, native) ==
    CASE backend = "generic" -> "lock"
      [] backend = "cas"     -> direct
      [] OTHER               -> native

\* first position of a load: get_vals, or load_from in the native backend
LoadEntry == IF backend = "llsc" THEN "load_from" ELSE "gv_val"

\* ExclusiveData::load(o)
Load(t, o) ==
    /\ Call(t)
    /\ Begin(t, "load", 0, LoadEntry)
    /\ loc' = [loc EXCEPT ![t] = [NoLoc EXCEPT !.ord = o]]
    /\ OracleCall(oracle_load(oracle, o))
    /\ UNCHANGED <<arch, backend, T, addr, monitor, data, m, ll, ret, lastsc, hist,
                   runs>>

\* ExclusiveData::load_linked(o)
LoadLinked(t, o) ==
    /\ Call(t)
    /\ Begin(t, "load_linked", 0, LoadEntry)
    /\ loc' = [loc EXCEPT ![t] = [NoLoc EXCEPT !.from = Len(hist), !.ord = o]]
    /\ OracleCall(oracle_load_linked(oracle, o))
    /\ UNCHANGED <<arch, backend, T, addr, monitor, data, m, ll, ret, lastsc, hist,
                   runs>>

\* ExclusiveData::store_direct(x, o)
StoreDirect(t, x, o) ==
    /\ Call(t)
    /\ Begin(t, "store_direct", to_usize(T, x),
             Entry("set_store", "store_to"))
    /\ loc' = [loc EXCEPT ![t] = [NoLoc EXCEPT !.x = x, !.ord = o]]
    /\ OracleCall(oracle_store_direct(oracle, to_usize(T, x), o))
    /\ UNCHANGED <<arch, backend, T, addr, monitor, data, m, ll, ret, lastsc, hist,
                   runs>>

\* ExclusiveData::exchange_direct(x, o)  (swap_direct in the native backend)
ExchangeDirect(t, x, o) ==
    /\ Call(t)
    /\ Begin(t, "exchange_direct", to_usize(T, x),
             Entry("xchg_swap", "exchange_to"))
    /\ loc' = [loc EXCEPT ![t] = [NoLoc EXCEPT !.x = x, !.ord = o]]
    /\ OracleCall(oracle_exchange_direct(oracle, to_usize(T, x), o))
    /\ UNCHANGED <<arch, backend, T, addr, monitor, data, m, ll, ret, lastsc, hist,
                   runs>>

\* entry of LinkedData::store_conditional / try_store_conditional: the
\* snapshot is moved into the call (self), so the thread no longer holds it
CondBegin(t, o, x, ordering) ==
    /\ ll[t].kind # "none"
    /\ Begin(t, o, to_usize(T, x), Entry("cas_tagged", "store_exc"))
    /\ loc' = [loc EXCEPT ![t] = [NoLoc EXCEPT !.x = x, !.ord = ordering]]
    /\ lastsc' = [lastsc EXCEPT ![t] =
                    [NoSc EXCEPT !.opno = opno'[t], !.used = ll[t],
                                 !.w = x, !.nval = to_usize(T, x),
                                 !.try = (o = "try_store_conditional")]]
    /\ ll' = [ll EXCEPT ![t] = NoLink]
    /\ OracleCall(oracle_store_conditional(oracle, to_usize(T, x),
                                           o = "try_store_conditional"))
    /\ UNCHANGED <<arch, backend, T, addr, monitor, data, m, ret, hist>>

\* LinkedData::store_conditional(x, o)
StoreConditional(t, x, o) ==
    /\ Call(t)
    /\ CondBegin(t, "store_conditional", x, o)
    /\ UNCHANGED runs

\* LinkedData::try_store_conditional(x, o)
TryStoreConditional(t, x, o) ==
    /\ Call(t)
    /\ CondBegin(t, "try_store_conditional", x, o)
    /\ UNCHANGED runs

\* the call of thread t returns: its frame is gone
Return(t) ==
    /\ pc' = [pc EXCEPT ![t] = "idle"]
    /\ op' = [op EXCEPT ![t] = "none"]
    /\ arg' = [arg EXCEPT ![t] = 0]
    /\ loc' = [loc EXCEPT ![t] = NoLoc]

\* thread t moves to position p inside its call
Goto(t, p) ==
    /\ pc' = [pc EXCEPT ![t] = p]
    /\ UNCHANGED <<op, arg>>

\* panic!: the call of thread t unwinds and returns nothing; the thread
\* makes no further call
Panic(t) ==
    /\ pc' = [pc EXCEPT ![t] = "panicked"]
    /\ UNCHANGED <<op, arg, loc, ll, ret>>

Returned(t, v) ==
    [op |-> op[t], opno |-> opno[t], val |-> v, succ |-> FALSE,
     ord |-> loc[t].ord]

\* ------------------------------------------------------------ get_vals
\* a get_vals whose first load reads the counter word
GetValsVal_counter(t) ==
    /\ pc[t] = "gv_val"
    /\ IF load_rejects(loc[t].ord)
       THEN Panic(t)
       ELSE /\ loc' = [loc EXCEPT ![t].v = data[VerSlot]]
            /\ Goto(t, "gv_ctr")
            /\ UNCHANGED <<ll, ret>>
    /\ UNCHANGED <<arch, oracle, backend, T, addr, monitor, data, m, lastsc, nops, opno,
                   hist, runs>>

\* a get_vals that waits for the mutex before it reads, as the mutations do
GetValsVal_locked(t) ==
    /\ pc[t] = "gv_val"
    /\ m = 0
    /\ IF load_rejects(loc[t].ord)
       THEN Panic(t)
       ELSE /\ loc' = [loc EXCEPT ![t].v = data[ValSlot]]
            /\ Goto(t, "gv_ctr")
            /\ UNCHANGED <<ll, ret>>
    /\ UNCHANGED <<arch, oracle, backend, T, addr, monitor, data, m, lastsc, nops, opno,
                   hist, runs>>

\* Llsc::get_vals, first load: self.val.load(ord) / load_from(ptr, ord)
GetValsVal(t) ==
    /\ pc[t] = "gv_val"
    /\ IF load_rejects(loc[t].ord)
       THEN Panic(t)
       ELSE /\ loc' = [loc EXCEPT ![t].v = data[ValSlot]]
            /\ Goto(t, "gv_ctr")
            /\ UNCHANGED <<ll, ret>>
    /\ UNCHANGED <<arch, oracle, backend, T, addr, monitor, data, m, lastsc, nops, opno,
                   hist, runs>>

\* Llsc::get_vals, second load: self.counter.load(Relaxed) / *ptr.offset(1),
\* and the return of the caller: load decodes component 0, load_linked
\* wraps the pair into a LinkedData
GetValsCounter(t) ==
    /\ pc[t] = "gv_ctr"
    /\ Return(t)
    /\ IF op[t] = "load"
       THEN /\ ret' = [ret EXCEPT ![t] = Returned(t, from_usize(T, loc[t].v))]
            /\ ll' = ll
       ELSE /\ ret' = [ret EXCEPT ![t] = Returned(t, 0)]
            /\ ll' = [ll EXCEPT ![t] =
                        [kind |-> "ll", data |-> <<loc[t].v, data[VerSlot]>>,
                         from |-> loc[t].from, at |-> Len(hist),
                         rops |-> nops, ord |-> "Relaxed"]]
    /\ UNCHANGED <<arch, oracle, backend, T, addr, monitor, data, m, lastsc, nops, opno, hist, runs>>

\* ------------------------------------------------------------ the mutex
\* self.m.lock().unwrap() at the head of set_val, xchg_val and cas
\* a lock that is taken without waiting for its holder
Lock_racy(t) ==
    /\ pc[t] = "lock"
    /\ m' = t
    /\ Goto(t, CASE op[t] = "store_direct"    -> "set_store"
                 [] op[t] = "exchange_direct" -> "xchg_load"
                 [] OTHER                     -> "cas_val")
    /\ UNCHANGED <<arch, oracle, backend, T, addr, monitor, data, loc, ll, ret, lastsc, nops, opno,
                   hist, runs>>

Lock(t) ==
    /\ pc[t] = "lock"
    /\ m = 0
    /\ m' = t
    /\ Goto(t, CASE op[t] = "store_direct"    -> "set_store"
                 [] op[t] = "exchange_direct" -> "xchg_load"
                 [] OTHER                     -> "cas_val")
    /\ UNCHANGED <<arch, oracle, backend, T, addr, monitor, data, loc, ll, ret, lastsc, nops, opno,
                   hist, runs>>

\* a try_store_conditional that reports success whatever the cas said
CondReturn_try_true(t, succ, res, casat) ==
    /\ ret' = [ret EXCEPT ![t] =
                [op |-> op[t], opno |-> opno[t], val |-> 0,
                 succ |-> (succ \/ op[t] = "try_store_conditional"),
                 ord |-> loc[t].ord]]
    /\ ll' = [ll EXCEPT ![t] =
                IF op[t] = "store_conditional" /\ ~succ
                THEN [kind |-> "retry", data |-> res, from |-> casat,
                      at |-> casat, rops |-> nops,
                      ord |-> lastsc[t].used.ord]
                ELSE NoLink]

\* what a conditional store hands back to its caller: None / true on
\* success; on failure store_conditional returns Some(LinkedData) built
\* from res, try_store_conditional returns false
CondReturn(t, succ, res, casat) ==
    /\ ret' = [ret EXCEPT ![t] =
                [op |-> op[t], opno |-> opno[t], val |-> 0, succ |-> succ,
                 ord |-> loc[t].ord]]
    /\ ll' = [ll EXCEPT ![t] =
                IF op[t] = "store_conditional" /\ ~succ
                THEN [kind |-> "retry", data |-> res, from |-> casat,
                      at |-> casat, rops |-> nops,
                      ord |-> lastsc[t].used.ord]
                ELSE NoLink]

\* a return that keeps the mutex locked (the guard is leaked, not dropped)
Unlock_leaky(t) ==
    /\ pc[t] = "unlock"
    /\ m = t
    /\ m' = m
    /\ Return(t)
    /\ CASE op[t] = "store_direct" ->
              /\ ret' = [ret EXCEPT ![t] = Returned(t, 0)]
              /\ UNCHANGED <<ll, lastsc>>
         [] op[t] = "exchange_direct" ->
              /\ ret' = [ret EXCEPT ![t] =
                          Returned(t, from_usize(T, loc[t].v))]
              /\ UNCHANGED <<ll, lastsc>>
         [] OTHER ->
              /\ CondReturn(t, loc[t].succ,
                            cas_fail_res(loc[t].v, loc[t].c,
                                         lastsc[t].used.data[1],
                                         lastsc[t].used.data[2]),
                            lastsc[t].casat)
              /\ lastsc' = [lastsc EXCEPT
                            ![t].post = CellNow,
                            ![t].res = cas_fail_res(loc[t].v, loc[t].c,
                                            lastsc[t].used.data[1],
                                            lastsc[t].used.data[2]),
                            ![t].done = TRUE]
    /\ UNCHANGED <<arch, oracle, backend, T, addr, monitor, data, nops, opno, hist, runs>>

\* drop of _guard when set_val, xchg_val or cas returns, and the return of
\* the public operation that called it
Unlock(t) ==
    /\ pc[t] = "unlock"
    /\ m = t
    /\ m' = 0
    /\ Return(t)
    /\ CASE op[t] = "store_direct" ->
              /\ ret' = [ret EXCEPT ![t] = Returned(t, 0)]
              /\ UNCHANGED <<ll, lastsc>>
         [] op[t] = "exchange_direct" ->
              /\ ret' = [ret EXCEPT ![t] =
                          Returned(t, from_usize(T, loc[t].v))]
              /\ UNCHANGED <<ll, lastsc>>
         [] OTHER ->
              /\ CondReturn(t, loc[t].succ,
                            cas_fail_res(loc[t].v, loc[t].c,
                                         lastsc[t].used.data[1],
                                         lastsc[t].used.data[2]),
                            lastsc[t].casat)
              /\ lastsc' = [lastsc EXCEPT
                            ![t].post = CellNow,
                            ![t].res = cas_fail_res(loc[t].v, loc[t].c,
                                            lastsc[t].used.data[1],
                                            lastsc[t].used.data[2]),
                            ![t].done = TRUE]
    /\ UNCHANGED <<arch, oracle, backend, T, addr, monitor, data, nops, opno, hist, runs>>

\* ------------------------------------------------------------ set_val
\* Llsc::set_val: self.val.store(val, Relaxed) in generic.rs, where the
\* caller's ordering is dropped by store_direct; store_to(self.get_ptr(),
\* val, ord) in the cas backend.  The counter is not touched.  In the cas
\* backend the store is the whole call; in the generic backend the guard is
\* dropped afterwards.
SetStore(t) ==
    /\ pc[t] = "set_store"
    /\ IF backend = "cas" /\ store_rejects(loc[t].ord)
       THEN /\ Panic(t)
            /\ UNCHANGED <<data, hist>>
       ELSE /\ data' = [data EXCEPT ![ValSlot] = arg[t]]
            /\ hist' = Append(hist, Event("direct", <<arg[t], data[VerSlot]>>,
                                          loc[t].x))
            /\ ll' = ll
            /\ IF backend = "generic"
               THEN /\ Goto(t, "unlock")
                    /\ UNCHANGED <<loc, ret>>
               ELSE /\ Return(t)
                    /\ ret' = [ret EXCEPT ![t] = Returned(t, 0)]
    /\ UNCHANGED <<arch, oracle, backend, T, addr, monitor, m, lastsc, nops, opno, runs>>

\* ------------------------------------------------------------ xchg_val
\* generic Llsc::xchg_val: let rval = self.val.load(Relaxed)
XchgLoad(t) ==
    /\ pc[t] = "xchg_load"
    /\ loc' = [loc EXCEPT ![t].v = data[ValSlot]]
    /\ Goto(t, "xchg_store")
    /\ UNCHANGED <<arch, oracle, backend, T, addr, monitor, data, m, ll, ret, lastsc, nops, opno,
                   hist, runs>>

\* generic Llsc::xchg_val: self.val.store(val, Relaxed)
XchgStore(t) ==
    /\ pc[t] = "xchg_store"
    /\ data' = [data EXCEPT ![ValSlot] = arg[t]]
    /\ hist' = Append(hist, Event("direct", <<arg[t], data[VerSlot]>>,
                                  loc[t].x))
    /\ Goto(t, "unlock")
    /\ UNCHANGED <<arch, oracle, backend, T, addr, monitor, m, loc, ll, ret, lastsc, nops, opno,
                   runs>>

\* a swap that hands back the word it has just written
XchgSwap_new(t) ==
    /\ pc[t] = "xchg_swap"
    /\ data' = [data EXCEPT ![ValSlot] = arg[t]]
    /\ hist' = Append(hist, Event("direct", <<arg[t], data[VerSlot]>>,
                                  loc[t].x))
    /\ Return(t)
    /\ ret' = [ret EXCEPT ![t] = Returned(t, from_usize(T, arg[t]))]
    /\ UNCHANGED <<arch, oracle, backend, T, addr, monitor, m, ll, lastsc, nops, opno, runs>>

\* cas backend, Llsc::xchg_val: exchange_to(ptr, n, ord), one atomic swap;
\* exchange_direct decodes the previous word
XchgSwap(t) ==
    /\ pc[t] = "xchg_swap"
    /\ data' = [data EXCEPT ![ValSlot] = arg[t]]
    /\ hist' = Append(hist, Event("direct", <<arg[t], data[VerSlot]>>,
                                  loc[t].x))
    /\ Return(t)
    /\ ret' = [ret EXCEPT ![t] = Returned(t, from_usize(T, data[ValSlot]))]
    /\ UNCHANGED <<arch, oracle, backend, T, addr, monitor, m, ll, lastsc, nops, opno, runs>>

\* ------------------------------------------------------------ generic cas
\* Llsc::cas: let cval = self.val.load(Relaxed)
CasLoadVal(t) ==
    /\ pc[t] = "cas_val"
    /\ loc' = [loc EXCEPT ![t].v = data[ValSlot]]
    /\ Goto(t, "cas_ctr")
    /\ UNCHANGED <<arch, oracle, backend, T, addr, monitor, data, m, ll, ret, lastsc, nops, opno,
                   hist, runs>>

\* Llsc::cas: let c_counter = self.counter.load(Relaxed), and the branch
CasLoadCounter(t) ==
    /\ pc[t] = "cas_ctr"
    /\ LET c  == data[VerSlot]
           ok == cas_test(loc[t].v, c, lastsc[t].used.data[1],
                          lastsc[t].used.data[2])
       IN /\ loc' = [loc EXCEPT ![t].c = c, ![t].succ = ok]
          /\ Goto(t, IF ok THEN "cas_sval" ELSE "unlock")
          /\ lastsc' = [lastsc EXCEPT ![t].casat = Len(hist),
                                      ![t].pre = <<loc[t].v, c>>,
                                      ![t].succ = ok]
    /\ UNCHANGED <<arch, oracle, backend, T, addr, monitor, data, m, ll, ret, nops, opno, hist,
                   runs>>

\* Llsc::cas: self.val.store(nval, Relaxed)
CasStoreVal(t) ==
    /\ pc[t] = "cas_sval"
    /\ data' = [data EXCEPT ![ValSlot] = arg[t]]
    /\ hist' = Append(hist, Event("scval", <<arg[t], data[VerSlot]>>,
                                  loc[t].x))
    /\ Goto(t, "cas_sctr")
    /\ UNCHANGED <<arch, oracle, backend, T, addr, monitor, m, loc, ll, ret, lastsc, nops, opno,
                   runs>>

\* Llsc::cas: self.counter.store(ctr.wrapping_add(1), Relaxed)
CasStoreCounter(t) ==
    /\ pc[t] = "cas_sctr"
    /\ LET nc == wrapping_add(lastsc[t].used.data[2], 1)
       IN /\ data' = [data EXCEPT ![VerSlot] = nc]
          /\ hist' = Append(hist, Event("sc", <<data[ValSlot], nc>>,
                                        loc[t].x))
    /\ Goto(t, "unlock")
    /\ UNCHANGED <<arch, oracle, backend, T, addr, monitor, m, loc, ll, ret, lastsc, nops, opno,
                   runs>>

\* ------------------------------------------------------------ tagged cas
\* cas backend: store_conditional / try_store_conditional are one
\* cas_tagged(self.ptr, self.data, val.to_usize()) and the match on succ
CasTagged(t) ==
    /\ pc[t] = "cas_tagged"
    /\ LET r == cas_tagged(CellNow, lastsc[t].used.data, arg[t])
       IN /\ data' = [data EXCEPT ![ValSlot] = r.mem[1],
                                  ![VerSlot] = r.mem[2]]
          /\ hist' = IF r.succ
                     THEN Append(hist, Event("sc", r.mem, loc[t].x))
                     ELSE hist
          /\ CondReturn(t, r.succ, r.res, Len(hist))
          /\ lastsc' = [lastsc EXCEPT ![t].casat = Len(hist),
                                      ![t].pre = CellNow,
                                      ![t].succ = r.succ,
                                      ![t].post = r.mem,
                                      ![t].res = r.res,
                                      ![t].done = TRUE]
    /\ Return(t)
    /\ UNCHANGED <<arch, oracle, backend, T, addr, monitor, m, nops, opno, runs>>

\* ------------------------------------------------------------ native LL/SC
\* The exclusive monitor of a thread is armed by its load-exclusive and is
\* lost when any other thread writes the cell or when the thread itself
\* executes a store-exclusive.  A plain store or swap by the thread itself
\* may or may not clear its own monitor (the architecture leaves it to the
\* implementation), hence the choice of own by the callers.
WriteMonitor(t, own) ==
    [u \in Racers |-> IF u = t THEN own ELSE FALSE]

\* load_from(&self.data, ord): an ordinary atomic load, the whole of load
\* and of load_linked.  No load-exclusive is issued: the monitor is left
\* as it was.
LoadFrom(t) ==
    /\ pc[t] = "load_from"
    /\ IF load_rejects(loc[t].ord)
       THEN Panic(t)
       ELSE /\ Return(t)
            /\ IF op[t] = "load"
               THEN /\ ret' = [ret EXCEPT ![t] =
                                Returned(t, from_usize(T, data[ValSlot]))]
                    /\ ll' = ll
               ELSE /\ ret' = [ret EXCEPT ![t] = Returned(t, 0)]
                    /\ ll' = [ll EXCEPT ![t] =
                                [kind |-> "ll", data |-> <<data[ValSlot], 0>>,
                                 from |-> loc[t].from, at |-> Len(hist),
                                 rops |-> nops, ord |-> loc[t].ord]]
    /\ UNCHANGED <<arch, oracle, backend, T, addr, monitor, data, m, lastsc, nops, opno,
                   hist, runs>>

\* store_to(&self.data, val.to_usize(), ord): the whole of store_direct
StoreTo(t) ==
    /\ pc[t] = "store_to"
    /\ IF store_rejects(loc[t].ord)
       THEN /\ Panic(t)
            /\ UNCHANGED <<data, hist, monitor>>
       ELSE /\ data' = [data EXCEPT ![ValSlot] = arg[t]]
            /\ hist' = Append(hist, Event("direct", <<arg[t], 0>>, loc[t].x))
            /\ \E own \in {monitor[t], FALSE} :
                  monitor' = WriteMonitor(t, own)
            /\ Return(t)
            /\ ret' = [ret EXCEPT ![t] = Returned(t, 0)]
            /\ ll' = ll
    /\ UNCHANGED <<arch, oracle, backend, T, addr, m, lastsc, nops, opno, runs>>

\* exchange_to(&self.data, val.to_usize(), ord): AtomicUsize::swap, which
\* takes every ordering; the whole of swap_direct
ExchangeTo(t) ==
    /\ pc[t] = "exchange_to"
    /\ data' = [data EXCEPT ![ValSlot] = arg[t]]
    /\ hist' = Append(hist, Event("direct", <<arg[t], 0>>, loc[t].x))
    /\ \E own \in {monitor[t], FALSE} : monitor' = WriteMonitor(t, own)
    /\ Return(t)
    /\ ret' = [ret EXCEPT ![t] = Returned(t, from_usize(T, data[ValSlot]))]
    /\ UNCHANGED <<arch, oracle, backend, T, addr, m, ll, lastsc, nops, opno, runs>>

\* store_exc(self.ptr, val.to_usize(), ord, self.ord, reload): the match on
\* ord, then the store-exclusive, which stores when the monitor of the
\* thread is armed.  On success, and on failure without reload
\* (try_store_conditional), the call returns; on failure with reload
\* (store_conditional) load_exc follows.
StoreExc(t) ==
    /\ pc[t] = "store_exc"
    /\ IF store_exc_rejects(loc[t].ord)
       THEN /\ Panic(t)
            /\ UNCHANGED <<data, hist, monitor, lastsc>>
       ELSE LET succ == monitor[t]
                mem  == IF succ THEN <<arg[t], 0>> ELSE CellNow
                fin  == succ \/ op[t] = "try_store_conditional"
            IN /\ data' = [data EXCEPT ![ValSlot] = mem[1]]
               /\ hist' = IF succ
                          THEN Append(hist, Event("sc", mem, loc[t].x))
                          ELSE hist
               /\ monitor' = IF succ THEN WriteMonitor(t, FALSE)
                             ELSE [monitor EXCEPT ![t] = FALSE]
               /\ lastsc' = [lastsc EXCEPT ![t].casat = Len(hist),
                                           ![t].pre = CellNow,
                                           ![t].succ = succ,
                                           ![t].post = mem,
                                           ![t].done = fin]
               /\ IF fin
                  THEN /\ CondReturn(t, succ, <<0, 0>>, Len(hist))
                       /\ Return(t)
                  ELSE /\ Goto(t, "load_exc")
                       /\ UNCHANGED <<loc, ll, ret>>
    /\ UNCHANGED <<arch, oracle, backend, T, addr, m, nops, opno, runs>>

\* load_exc(ptr, rord, false) after a failed store-exclusive: the
\* load-exclusive arms the monitor and reads the word the retry snapshot
\* is built from
LoadExc(t) ==
    /\ pc[t] = "load_exc"
    /\ IF load_exc_rejects(lastsc[t].used.ord)
       THEN /\ Panic(t)
            /\ UNCHANGED <<monitor, lastsc>>
       ELSE /\ monitor' = [monitor EXCEPT ![t] = TRUE]
            /\ CondReturn(t, FALSE, <<data[ValSlot], 0>>, Len(hist))
            /\ lastsc' = [lastsc EXCEPT ![t].res = <<data[ValSlot], 0>>,
                                        ![t].done = TRUE]
            /\ Return(t)
    /\ UNCHANGED <<arch, oracle, backend, T, addr, data, m, nops, opno, hist, runs>>

\* ------------------------------------------------------------ test_mt_cas
\* body of the for loop: let mut ll = val.load_linked(Relaxed)
IncLoadLinked(t) ==
    /\ ll[t].kind = "none"
    /\ runs[t] < NumRun
    /\ IF t = 1 THEN TRUE ELSE runs[t - 1] > 0
    /\ Begin(t, "load_linked", 0, LoadEntry)
    /\ loc' = [loc EXCEPT ![t] = [NoLoc EXCEPT !.from = Len(hist)]]
    /\ runs' = [runs EXCEPT ![t] = runs[t] + 1]
    /\ UNCHANGED <<arch, oracle, backend, T, addr, monitor, data, m, ll, ret, lastsc, hist, nops,
                   opno>>

\* inner loop: let next = ll.get() + 1; ll.store_conditional(next, Relaxed);
\* None => break, Some(nll) => ll = nll
IncStoreConditional(t) ==
    /\ UNCHANGED <<runs, nops, opno>>
    /\ CondBegin(t, "store_conditional", get(ll[t]) + 1, "Relaxed")

\* ------------------------------------------------------------ specifications
\* the steps inside the operations
Step(t) ==
    \/ GetValsVal(t)
    \/ GetValsCounter(t)
    \/ Lock(t)
    \/ CasLoadVal(t)
    \/ CasLoadCounter(t)
    \/ CasStoreVal(t)
    \/ CasStoreCounter(t)
    \/ Unlock(t)
    \/ CasTagged(t)

\* free workload: every thread calls any operation with any payload, with
\* the ordering every test of the crate passes (Relaxed)
Next ==
    \E t \in Threads :
        \/ Load(t, "Relaxed")
        \/ LoadLinked(t, "Relaxed")
        \/ \E x \in Payloads(T) : StoreDirect(t, x, "Relaxed")
        \/ \E x \in Payloads(T) : ExchangeDirect(t, x, "Relaxed")
        \/ \E x \in Payloads(T) : StoreConditional(t, x, "Relaxed")
        \/ \E x \in Payloads(T) : TryStoreConditional(t, x, "Relaxed")
        \/ SetStore(t)
        \/ XchgLoad(t)
        \/ XchgStore(t)
        \/ XchgSwap(t)
        \/ Step(t)

Spec == Init /\ [][Next]_vars

\* the steps a thread takes inside a call it has made
Running(t) ==
    \/ SetStore(t)
    \/ XchgLoad(t)
    \/ XchgStore(t)
    \/ XchgSwap(t)
    \/ Step(t)

\* fair scheduling: a thread that can take a step of its call is not
\* held back for ever
SpecFair == Spec /\ \A t \in Threads : WF_vars(Running(t))

\* single-threaded use: the same operations, called by thread 1 only
NextST ==
    \/ Load(1, "Relaxed")
    \/ LoadLinked(1, "Relaxed")
    \/ \E x \in Payloads(T) : StoreDirect(1, x, "Relaxed")
    \/ \E x \in Payloads(T) : ExchangeDirect(1, x, "Relaxed")
    \/ \E x \in Payloads(T) : StoreConditional(1, x, "Relaxed")
    \/ \E x \in Payloads(T) : TryStoreConditional(1, x, "Relaxed")
    \/ SetStore(1)
    \/ XchgLoad(1)
    \/ XchgStore(1)
    \/ XchgSwap(1)
    \/ Step(1)

SpecST == InitST /\ [][NextST]_vars

\* test_mt_cas: ExclusiveUsize::new(0), every thread runs the increment loop
InitInc ==
    \E b \in Backends :
      \E a \in (IF b = "cas" THEN Placements ELSE {16}) :
        InitCell(b, "usize", a, 0)

NextInc ==
    \E t \in Threads :
        \/ IncLoadLinked(t)
        \/ IncStoreConditional(t)
        \/ Step(t)

SpecInc == InitInc /\ [][NextInc]_vars

\* what a thread of test_mt_cas can do next
IncRunning(t) ==
    \/ IncLoadLinked(t)
    \/ IncStoreConditional(t)
    \/ Step(t)

\* test_mt_cas under fair scheduling: a spawned thread that can take a
\* step is not held back for ever
SpecIncFair == SpecInc /\ \A t \in Threads : WF_vars(IncRunning(t))

\* the free workload of the threads on a cell of every payload type
SpecTyped == InitST /\ [][Next]_vars

\* the value thread t exchanges in: the threads' values differ from one
\* another and from every initial value
XchgValue(t) == MaxVal + t

\* every thread calls exchange_direct once, with its own value
NextXchg ==
    \E t \in Racers :
        \/ opno[t] = 0 /\ ExchangeDirect(t, XchgValue(t), "Relaxed")
        \/ Lock(t)
        \/ XchgLoad(t)
        \/ XchgStore(t)
        \/ Unlock(t)
        \/ XchgSwap(t)

SpecXchg == Init /\ [][NextXchg]_vars

\* the steps inside the operations of the native backend
NativeStep(t) ==
    \/ LoadFrom(t)
    \/ StoreTo(t)
    \/ ExchangeTo(t)
    \/ StoreExc(t)
    \/ LoadExc(t)

\* the free workload over the three backends
InitAll ==
    \E b \in AllBackends :
      \E a \in (IF b = "cas" THEN Placements ELSE {16}),
         v0 \in Payloads("usize") :
        InitCell(b, "usize", a, v0)

NextAll ==
    \/ Next
    \/ \E t \in Threads : NativeStep(t)

SpecAll == InitAll /\ [][NextAll]_vars

\* one thread calling every operation with every ordering, in the three
\* backends
NextOrd ==
    \/ \E o \in Orderings : Load(1, o)
    \/ \E o \in Orderings : LoadLinked(1, o)
    \/ \E x \in Payloads(T), o \in Orderings : StoreDirect(1, x, o)
    \/ \E x \in Payloads(T), o \in Orderings : ExchangeDirect(1, x, o)
    \/ \E x \in Payloads(T), o \in Orderings : StoreConditional(1, x, o)
    \/ \E x \in Payloads(T), o \in Orderings : TryStoreConditional(1, x, o)
    \/ SetStore(1)
    \/ XchgLoad(1)
    \/ XchgStore(1)
    \/ XchgSwap(1)
    \/ Step(1)
    \/ NativeStep(1)

SpecOrd == InitAll /\ [][NextOrd]_vars

\* one thread calling every operation with every ordering on the generic
\* and the tagged-CAS backend, the oracle making the same calls
InitRef ==
    \E b \in Backends, ty \in Types :
      \E a \in (IF b = "cas" THEN Placements ELSE {16}), v0 \in Payloads(ty) :
        InitBuild(ArchOf(b), oracle_new(ty, v0), b, ty, a, v0)

NextRef ==
    \/ \E o \in Orderings : Load(1, o)
    \/ \E o \in Orderings : LoadLinked(1, o)
    \/ \E x \in Payloads(T), o \in Orderings : StoreDirect(1, x, o)
    \/ \E x \in Payloads(T), o \in Orderings : ExchangeDirect(1, x, o)
    \/ \E x \in Payloads(T), o \in Orderings : StoreConditional(1, x, o)
    \/ \E x \in Payloads(T), o \in Orderings : TryStoreConditional(1, x, o)
    \/ SetStore(1)
    \/ XchgLoad(1)
    \/ XchgStore(1)
    \/ XchgSwap(1)
    \/ Step(1)

SpecRef == InitRef /\ [][NextRef]_vars

\* the crate built for every target_arch and then used by one thread: the
\* cell is of the backend the build selected, and no call can be made
\* where the build selected none
InitTarget ==
    \E ar \in Archs :
      \E a \in (CASE Selected(ar) # "cas" -> {16}
                  [] ar = "x86"          -> Placements32
                  [] OTHER               -> Placements),
         v0 \in Payloads("usize") :
        InitBuild(ar, OracleOff, Selected(ar), "usize", a, v0)

NextTarget ==
    \/ NextST
    \/ NativeStep(1)

SpecTarget == InitTarget /\ [][NextTarget]_vars

\* single-threaded use of a cell created with any word, the largest one
\* included
InitWrap ==
    \E b \in Backends :
      \E a \in (IF b = "cas" THEN Placements ELSE {16}), v0 \in Word :
        InitCell(b, "usize", a, v0)

SpecWrap == InitWrap /\ [][NextST]_vars

\* the first iteration of the loop of test_mt_cas
RaceLoadLinked(t) ==
    /\ runs[t] = 0
    /\ IncLoadLinked(t)

\* one increment of test_mt_cas per thread, run by one more thread: only
\* load_linked and store_conditional touch the cell
NextRace ==
    \E t \in Racers :
        \/ RaceLoadLinked(t)
        \/ IncStoreConditional(t)
        \/ Step(t)

SpecRace == InitInc /\ [][NextRace]_vars

\* ------------------------------------------------------------ the codec alone
\* x.to_usize() called on a payload of type T
ToUsize(t, x) ==
    /\ pc[t] = "idle"
    /\ op' = [op EXCEPT ![t] = "to_usize"]
    /\ arg' = [arg EXCEPT ![t] = to_usize(T, x)]
    /\ loc' = [loc EXCEPT ![t] = [NoLoc EXCEPT !.x = x]]
    /\ ret' = [ret EXCEPT ![t] = NoRet]
    /\ UNCHANGED <<arch, oracle, backend, T, addr, monitor, data, m, pc, ll, lastsc, nops,
                   opno, hist, runs>>

\* T::from_usize(w) called on a word; it returns for every word
FromUsize(t, w) ==
    /\ pc[t] = "idle"
    /\ loc' = [loc EXCEPT ![t].v = w]
    /\ ret' = [ret EXCEPT ![t] =
                [NoRet EXCEPT !.op = "from_usize", !.val = from_usize(T, w)]]
    /\ UNCHANGED <<arch, oracle, backend, T, addr, monitor, data, m, pc, op, arg, ll,
                   lastsc, nops, opno, hist, runs>>

\* every payload type of every backend
InitCodec ==
    \E b \in AllBackends, ty \in Types :
      \E a \in (IF b = "cas" THEN Placements ELSE {16}), v0 \in Payloads(ty) :
        InitCell(b, ty, a, v0)

NextCodec ==
    \/ \E x \in Payloads(T) : ToUsize(1, x)
    \/ \E w \in Word : FromUsize(1, w)

SpecCodec == InitCodec /\ [][NextCodec]_vars

\* ------------------------------------------------------------ observations
\* what ExclusiveData::load returns when it runs alone from this state
LoadValue == from_usize(T, data[ValSlot])

\* thread t has completed a conditional store
CondDone(t) == lastsc[t].done

\* writes that took effect after the snapshot consumed by t's last
\* conditional store was handed out and before that store's comparison
Between(t) == (lastsc[t].used.at + 1) .. lastsc[t].casat

Directs(t) == {k \in Between(t) : hist[k].kind = "direct"}
Succs(t)   == {k \in Between(t) : hist[k].kind = "sc"}

\* ------------------------------------------------------------ claims
\* C1: ABA closure.  When load_linked captured value v and afterwards only
\* store_direct / exchange_direct calls wrote the cell, at least one of
\* them writing another word and the last one writing v back, the
\* conditional store of that snapshot fails and leaves the cell as it was.
C1_AbaClosure ==
    \A t \in Threads :
        ( /\ CondDone(t)
          /\ lastsc[t].used.kind = "ll"
          /\ Between(t) # {}
          /\ Directs(t) = Between(t)
          /\ \E k \in Directs(t) : hist[k].cell[1] # lastsc[t].used.data[1]
          /\ hist[lastsc[t].casat].cell[1] = lastsc[t].used.data[1] )
        => ( ~lastsc[t].succ /\ lastsc[t].post = lastsc[t].pre )

\* C2: after a completed store_direct or exchange_direct, also one that
\* writes the word the cell already holds, every conditional store on a
\* snapshot handed out before that call fails.
C2_DirectStorePoisons ==
    \A t \in Threads :
        ( CondDone(t) /\ Directs(t) # {} ) => ~lastsc[t].succ

\* C3: when between 1 and 2^W - 1 conditional stores of other snapshots
\* succeeded after a snapshot was handed out, and no direct store was
\* involved, the conditional store of that snapshot fails, also when the
\* cell holds the captured value again.
C3_InterveningSuccessFails ==
    \A t \in Threads :
        ( /\ CondDone(t)
          /\ Directs(t) = {}
          /\ Cardinality(Succs(t)) \in 1 .. (WordMod - 1) )
        => ~lastsc[t].succ

\* C3 witness: a conditional store failed after another one had succeeded
\* and had left the captured value in the cell.
C3_Witness ==
    \E t \in Threads :
        /\ CondDone(t)
        /\ ~lastsc[t].succ
        /\ Directs(t) = {}
        /\ Succs(t) # {}
        /\ lastsc[t].pre[1] = lastsc[t].used.data[1]

\* every thread of test_mt_cas has finished its num_run increments
AllJoined ==
    \A t \in Threads :
        runs[t] = NumRun /\ pc[t] = "idle" /\ ll[t].kind = "none"

\* C4: after all threads of the increment workload have joined, load
\* returns NumThreads * NumRun.
C4_IncrementConvergence ==
    AllJoined => LoadValue = NumThreads * NumRun

\* C4 witness: all threads have joined and some thread had to retry with
\* the snapshot returned by a failed store_conditional.
C4_Witness ==
    /\ AllJoined
    /\ \E t \in Threads : lastsc[t].used.kind = "retry"

\* C5: new(v), load_linked, store_conditional(w) (or the try variant) with
\* nothing in between succeeds, and the load that follows returns w.
C5_SingleThreadSuccess ==
    \A t \in Threads :
        ( /\ ret[t].op = "load"
          /\ ret[t].opno = 3
          /\ CondDone(t)
          /\ lastsc[t].opno = 2
          /\ lastsc[t].used.kind = "ll"
          /\ lastsc[t].used.rops = 1 )
        => ( lastsc[t].succ /\ ret[t].val = lastsc[t].w )

SinceCall(t) == (lastsc[t].used.from + 1) .. lastsc[t].casat

C7_AtomicCapture ==
    \A t \in Threads :
        ll[t].kind = "ll" =>
            \E k \in ll[t].from .. ll[t].at : hist[k].cell = ll[t].data

\* C8: the snapshot a failed store_conditional returns holds the pair the
\* cell held at the instant of the attempt; when nothing was written since,
\* it is the pair the cell holds now and get() equals what load returns.
C8_FailureReturnsFresh ==
    \A t \in Threads :
        ll[t].kind = "retry" =>
            /\ ll[t].data = hist[ll[t].at].cell
            /\ ll[t].at = Len(hist) =>
                  ( ll[t].data = CellNow /\ get(ll[t]) = LoadValue )

\* C8 witness: a store_conditional failed and returned a snapshot that
\* differs from the stale one it consumed, and nothing was written since.
C8_Witness ==
    \E t \in Threads :
        /\ ll[t].kind = "retry"
        /\ ll[t].at = Len(hist)
        /\ ll[t].data # lastsc[t].used.data
        /\ ll[t].data = CellNow

\* C9: when the last write before a conditional store is a store_direct(x)
\* or exchange_direct(x) made after the load_linked, with x another word
\* than the captured one, the conditional store fails and leaves the cell
\* unchanged: same version, and load still returns x.
C9_FailedStoreLeavesCell ==
    \A t \in Threads :
        ( /\ CondDone(t)
          /\ lastsc[t].used.kind = "ll"
          /\ Directs(t) # {}
          /\ hist[lastsc[t].casat].kind = "direct"
          /\ to_usize(T, hist[lastsc[t].casat].x) # lastsc[t].used.data[1]
          /\ pc[t] = "idle" /\ nops = lastsc[t].opno )
        => ( /\ ~lastsc[t].succ
             /\ lastsc[t].post = lastsc[t].pre
             /\ CellNow = lastsc[t].pre
             /\ LoadValue = hist[lastsc[t].casat].x )

\* C10: in single-threaded use exchange_direct(w) returns what the
\* reference cell held before the call (what load would have returned)
\* and leaves the cell holding w.
C10_ExchangeCorrect ==
    \A t \in Threads :
        ( /\ ret[t].op = "exchange_direct"
          /\ pc[t] = "idle"
          /\ ret[t].opno = nops )
        => ( /\ ret[t].val = from_usize(T, hist[Len(hist) - 1].cell[1])
             /\ ret[t].val = hist[Len(hist) - 1].x
             /\ LoadValue = hist[Len(hist)].x )

\* C11: round trip of the codec.  For every payload type and every value x,
\* decoding the word that encoding x produced gives x back.
C11_CodecRoundTrip ==
    \A t \in Threads :
        ( /\ op[t] = "to_usize"
          /\ ret[t].op = "from_usize"
          /\ loc[t].v = arg[t] )
        => ret[t].val = loc[t].x

\* C12: decoding a word as a boolean accepts only the words 0 and 1; for any
\* other word from_usize does not return a boolean.
C12_BoolDecodeRejects ==
    \A t \in Threads :
        ( T = "bool" /\ ret[t].op = "from_usize" ) => loc[t].v \in {0, 1}

\* C13: load and load_linked called with Release or AcqRel panic in every
\* backend: such a call never returns a value, never hands out a snapshot,
\* and once it has run it has panicked.
C13_LoadRejectsRelease ==
    \A t \in Threads :
        /\ ret[t].op \in {"load", "load_linked"}
              => ret[t].ord \notin {"Release", "AcqRel"}
        /\ ( /\ op[t] \in {"load", "load_linked"}
             /\ loc[t].ord \in {"Release", "AcqRel"} )
           => ( /\ pc[t] \in {LoadEntry, "panicked"}
                /\ ret[t].opno # opno[t]
                /\ ~(ll[t].kind = "ll" /\ ll[t].rops >= opno[t]) )

\* C13 witness: a load or load_linked called with Release or AcqRel has
\* panicked.
C13_Witness ==
    \E t \in Threads :
        /\ pc[t] = "panicked"
        /\ op[t] \in {"load", "load_linked"}
        /\ loc[t].ord \in {"Release", "AcqRel"}

\* C14: store_direct called with Acquire or AcqRel panics in every backend:
\* such a call never returns and never gets past its store.
C14_StoreDirectRejectsAcquire ==
    \A t \in Threads :
        /\ ret[t].op = "store_direct"
              => ret[t].ord \notin {"Acquire", "AcqRel"}
        /\ ( /\ op[t] = "store_direct"
             /\ loc[t].ord \in {"Acquire", "AcqRel"} )
           => pc[t] # "unlock"

\* C15: no ordering makes store_conditional or try_store_conditional panic,
\* in any backend.
C15_CondStoreAcceptsAll ==
    \A t \in Threads :
        op[t] \in {"store_conditional", "try_store_conditional"}
            => pc[t] # "panicked"

\* C16: try_store_conditional and store_conditional decide and act alike.
\* For either variant, with the snapshot it consumed and the pair the cell
\* held at the attempt: it reports success (true, resp. None) exactly when
\* the two pairs are equal, and it leaves the cell holding (w, version + 1)
\* in that case and the pair it found otherwise.
C16_TryEquivalent ==
    \A t \in Threads :
        CondDone(t) =>
            LET hit == lastsc[t].pre = lastsc[t].used.data
            IN /\ lastsc[t].succ = hit
               /\ ret[t].opno = lastsc[t].opno => ret[t].succ = hit
               /\ lastsc[t].post =
                     IF hit
                     THEN <<lastsc[t].nval,
                            (lastsc[t].used.data[2] + 1) % WordMod>>
                     ELSE lastsc[t].pre

\* C16 witness: a try_store_conditional has failed and a store_conditional
\* has succeeded.
C16_Witness ==
    \E t, u \in Threads :
        /\ CondDone(t) /\ lastsc[t].try /\ ~lastsc[t].succ
        /\ CondDone(u) /\ ~lastsc[u].try /\ lastsc[u].succ

\* C17: retry without reload.  A conditional store on the snapshot that a
\* failed store_conditional returned succeeds when no write took effect on
\* the cell after that failure; no load_linked is needed in between.
C17_RetryWithoutReload ==
    \A t \in Threads :
        ( /\ CondDone(t)
          /\ lastsc[t].used.kind = "retry"
          /\ Between(t) = {} )
        => lastsc[t].succ

\* C17 witness: a store_conditional failed because the cell had been
\* written, and the conditional store on the snapshot it returned succeeded.
C17_Witness ==
    \E t \in Threads :
        /\ CondDone(t)
        /\ lastsc[t].used.kind = "retry"
        /\ Between(t) = {}
        /\ lastsc[t].succ
        /\ Len(hist) > 2

\* C18: load and load_linked never block.  In every reachable state a
\* thread inside load or load_linked can take its next step, whatever the
\* other threads are doing (also while one of them holds the lock of the
\* generic backend) and whatever snapshots are outstanding; and a
\* store_direct can take its next step whenever no other thread is inside
\* a mutation, whatever snapshots are outstanding.
C18_LoadsNeverBlock ==
    \A t \in Threads :
        /\ pc[t] \in {"gv_val", "gv_ctr"}
              => ENABLED (GetValsVal(t) \/ GetValsCounter(t))
        /\ ( /\ op[t] = "store_direct"
             /\ pc[t] \in {"lock", "set_store", "unlock"}
             /\ m \in {0, t} )
           => ENABLED (Lock(t) \/ SetStore(t) \/ Unlock(t))

\* C18 witness: a thread is inside load or load_linked while another
\* thread, which holds a snapshot, holds the lock.
C18_Witness ==
    \E t, u \in Threads :
        /\ t # u
        /\ pc[t] \in {"gv_val", "gv_ctr"}
        /\ m = u
        /\ ll[u].kind # "none"

\* positions at which a thread of the generic backend holds the mutex
Locked ==
    {"set_store", "xchg_load", "xchg_store", "cas_val", "cas_ctr",
     "cas_sval", "cas_sctr", "unlock"}

\* C19: no operation blocks indefinitely.  The mutex is only ever held by a
\* thread that is inside the mutation that took it, which releases it
\* before returning; whenever some call is in progress some thread can take
\* a step; and under fair scheduling every call that was started returns.
C19_NoIndefiniteBlocking ==
    /\ [](\A t \in Threads : (m = t) <=> (pc[t] \in Locked /\ backend = "generic"))
    /\ []((\E t \in Threads : pc[t] # "idle")
            => \E t \in Threads : ENABLED Running(t))
    /\ \A t \in Threads : (pc[t] # "idle") ~> (pc[t] = "idle")

\* C19 witness: a thread waits for the mutex that another thread holds in
\* the middle of a mutation.
C19_Witness ==
    \E t, u \in Threads :
        /\ t # u
        /\ pc[t] = "lock"
        /\ m = u
        /\ pc[u] \in Locked

\* C20: in the native backend load_linked leaves the exclusive monitor of
\* the calling thread armed on the cell when it returns, and a conditional
\* store issued on its snapshot with no write to the cell since the
\* load_linked was called succeeds at the first attempt.
C20_LoadLinkedArmsMonitor ==
    backend = "llsc" =>
        \A t \in Threads :
            /\ ( /\ pc[t] = "idle"
                 /\ ret[t].op = "load_linked"
                 /\ ret[t].opno = opno[t]
                 /\ ll[t].kind = "ll"
                 /\ ll[t].at = Len(hist) )
               => monitor[t]
            /\ ( /\ CondDone(t)
                 /\ lastsc[t].used.kind = "ll"
                 /\ SinceCall(t) = {} )
               => lastsc[t].succ

\* what thread 1 has in hand once its call is over, against the oracle: a
\* panic where the oracle panicked, else the same loaded or exchanged
\* value, the same verdict of a conditional store, a snapshot exactly when
\* the oracle's caller holds one, and the same value in it
SameResults ==
    /\ pc[1] = "panicked" => oracle.out.kind = "panic"
    /\ (pc[1] = "idle" /\ nops > 0) =>
        /\ oracle.out.kind # "panic"
        /\ ret[1].op \in {"load", "exchange_direct"} =>
              ret[1].val = oracle.out.val
        /\ ret[1].op \in {"store_conditional", "try_store_conditional"} =>
              ret[1].succ = oracle.out.succ
        /\ (ll[1].kind # "none") = oracle.held
        /\ oracle.held => get(ll[1]) = from_usize(T, oracle.snap[1])

\* C21: the generic fallback is the oracle.  For every single-threaded
\* sequence of new, load, store_direct, exchange_direct, load_linked, get,
\* store_conditional and try_store_conditional calls the tagged-CAS backend
\* hands back what the generic fallback hands back for the same calls.
C21_CasMatchesGeneric ==
    (backend = "cas" /\ oracle.on) => SameResults

\* the oracle is the generic backend: the two agree call by call
OracleIsGeneric ==
    (backend = "generic" /\ oracle.on) => SameResults

\* C22: for every target architecture exactly one backend is selected, and
\* is_lock_free() (the selected IS_LOCK_FREE) is true when that backend is
\* the tagged-CAS or a native LL/SC one and false exactly when it is the
\* generic fallback.
C22_OneBackendPerTarget ==
    /\ Cardinality(exclusive_target(arch)) = 1
    /\ backend = Selected(arch)
    /\ \A e \in exclusive_target(arch) :
         e.IS_LOCK_FREE = (e.backend \in {"cas", "llsc"})

\* C23: every successful store_conditional or try_store_conditional leaves
\* the cell's version at the snapshot's version plus one (mod 2^w), also
\* when the new value is the value already held; a failed one leaves the
\* version it found.
C23_VersionBump ==
    \A t \in Threads :
        CondDone(t) =>
            IF lastsc[t].succ
            THEN lastsc[t].post[2] = (lastsc[t].used.data[2] + 1) % WordMod
            ELSE lastsc[t].post[2] = lastsc[t].pre[2]

\* a conditional store succeeded writing the value the cell already held,
\* and another one failed
C23_Witness ==
    \E t, u \in Threads :
        /\ CondDone(t) /\ lastsc[t].succ
        /\ lastsc[t].nval = lastsc[t].pre[1]
        /\ CondDone(u) /\ ~lastsc[u].succ

\* C24: store_direct and exchange_direct advance the cell's version on every
\* call, whether or not the written value differs from the current one: the
\* version their write leaves differs from the version it found.
C24_DirectStoreAdvancesVersion ==
    \A k \in 2 .. Len(hist) :
        hist[k].kind = "direct" => hist[k].cell[2] # hist[k - 1].cell[2]

\* C25: in the generic fallback a conditional store succeeds exactly when
\* the captured value and the captured version both equal the cell's value
\* and version, and the comparison and the two writes happen inside one
\* critical section: at most one thread is inside set_val, xchg_val or cas
\* at a time and it holds the mutex, so that no other write takes effect
\* between the check and the writes.
C25_GenericCriticalSection ==
    backend = "generic" =>
        /\ \A t, u \in Threads :
              (pc[t] \in Locked /\ pc[u] \in Locked) => (t = u /\ m = t)
        /\ \A t \in Threads :
              /\ pc[t] \in {"cas_sval", "cas_sctr", "unlock"}
                 /\ op[t] \in {"store_conditional", "try_store_conditional"}
                 => /\ lastsc[t].pre = hist[lastsc[t].casat].cell
                    /\ lastsc[t].succ = (lastsc[t].pre = lastsc[t].used.data)
              /\ pc[t] = "cas_sval"
                 => (Len(hist) = lastsc[t].casat /\ CellNow = lastsc[t].pre)
              /\ pc[t] = "cas_sctr"
                 => /\ Len(hist) = lastsc[t].casat + 1
                    /\ hist[Len(hist)].kind = "scval"
                    /\ CellNow = <<lastsc[t].nval, lastsc[t].pre[2]>>
              /\ CondDone(t)
                 => /\ lastsc[t].succ = (lastsc[t].pre = lastsc[t].used.data)
                    /\ lastsc[t].succ =>
                         /\ hist[lastsc[t].casat + 1].kind = "scval"
                         /\ hist[lastsc[t].casat + 2].kind = "sc"
                         /\ hist[lastsc[t].casat + 2].cell = lastsc[t].post

\* a conditional store has passed its check and not yet written, while
\* another thread's store_direct waits for the mutex
C25_Witness ==
    /\ backend = "generic"
    /\ \E t, u \in Threads :
        /\ pc[t] = "cas_sval"
        /\ pc[u] = "lock" /\ op[u] = "store_direct"

\* C26: the pair (value, version) changes in one atomic step.  A
\* load_linked that runs while a store_conditional succeeds never sees the
\* new value with the old version nor the new version with the old value:
\* the pair it returns is the pair of the cell before or after some whole
\* write, as it stood between the call and the return.
C26_PairChangesAtomically ==
    \A t \in Threads :
        ll[t].kind = "ll" =>
            \E k \in ll[t].from .. ll[t].at :
                /\ hist[k].kind # "scval"
                /\ hist[k].cell = ll[t].data

\* a conditional store whose snapshot carries the largest version and still
\* matches the cell succeeds and leaves version 0; no call panics
WrapsToZero ==
    \A t \in Threads :
        /\ pc[t] # "panicked"
        /\ ( /\ CondDone(t)
             /\ lastsc[t].used.data[2] = WordMod - 1
             /\ lastsc[t].pre = lastsc[t].used.data )
           => ( lastsc[t].succ /\ lastsc[t].post[2] = 0 )

\* C27: the version counter wraps on overflow.  When the snapshot's version
\* is 2^w - 1 and the snapshot still matches the cell, store_conditional
\* succeeds and sets the version to 0 rather than failing or panicking;
\* this also holds for a cell created with new(2^w - 1), whose initial
\* version is its initial value.
C27_VersionWraps ==
    /\ WrapsToZero
    /\ hist[1].cell[2] = to_usize(T, hist[1].x)

\* C27 as amended: the initial version is the initial value in the generic
\* fallback and in a tagged-CAS cell whose first word is double-word
\* aligned; in the other placement the version word is `extra` and starts
\* at 0.
C27_VersionWrapsWhereItStartsAtValue ==
    /\ WrapsToZero
    /\ hist[1].cell[2] = IF backend = "generic" \/ get_ptr(addr) = addr
                         THEN to_usize(T, hist[1].x)
                         ELSE 0

\* new(2^w - 1), load_linked, store_conditional: the store succeeded and
\* left version 0
C27_Witness ==
    /\ hist[1].x = WordMod - 1
    /\ CondDone(1)
    /\ lastsc[1].used.at = 1
    /\ lastsc[1].used.data[2] = WordMod - 1
    /\ lastsc[1].succ
    /\ lastsc[1].post[2] = 0

\* C28: tagged-CAS alignment.  For every word-aligned placement of the
\* three-word cell get_ptr returns a double-word-aligned address whose two
\* words lie inside the cell; after new(v) the first word there holds v, so
\* that load returns v; and every operation works on that pair: the writes
\* land there, the snapshots are read from there, and the cell's third word
\* keeps what new() gave it.
C28_TaggedCasAlignment ==
    backend = "cas" =>
        /\ addr % WordBytes = 0
        /\ get_ptr(addr) % (2 * WordBytes) = 0
        /\ addr <= get_ptr(addr)
        /\ get_ptr(addr) + 2 * WordBytes <= addr + 3 * WordBytes
        /\ Len(hist) = 1 => data[ValSlot] = to_usize(T, hist[1].x)
        /\ (ret[1].op = "load" /\ ret[1].opno = 1) => ret[1].val = hist[1].x
        /\ CellNow = hist[Len(hist)].cell
        /\ ll[1].kind = "ll" => ll[1].data = hist[ll[1].at].cell
        /\ IF ValSlot = 1
           THEN data[3] = 0
           ELSE data[1] = to_usize(T, hist[1].x)

\* a cell whose first word is not double-word aligned: a conditional store
\* succeeded on it and a load then returned the stored value
C28_Witness ==
    /\ backend = "cas"
    /\ get_ptr(addr) # addr
    /\ CondDone(1) /\ lastsc[1].succ
    /\ ret[1].op = "load" /\ ret[1].opno > lastsc[1].opno
    /\ ret[1].val = lastsc[1].w
    /\ lastsc[1].w # hist[1].x

\* thread t takes a step of a load or a load_linked: the call or one of
\* the reads inside it
LoadStep(t) ==
    \/ op[t] \in {"load", "load_linked"} /\ pc'[t] # pc[t]
    \/ pc[t] = "idle" /\ op'[t] \in {"load", "load_linked"}

\* C29: load, load_linked and get leave the cell's value and version (and
\* the mutex) as they are, and get() on a snapshot keeps returning the
\* value captured at load_linked, a value the cell held during that call,
\* whatever is written to the cell afterwards.
C29_ReadsLeaveCell ==
    /\ [][\A t \in Threads :
            /\ LoadStep(t) => (data' = data /\ hist' = hist /\ m' = m)
            /\ (ll[t].kind # "none" /\ ll'[t] = ll[t])
               => get(ll[t])' = get(ll[t])]_vars
    /\ [](\A t \in Threads :
            ll[t].kind = "ll" =>
                \E k \in ll[t].from .. ll[t].at :
                    get(ll[t]) = from_usize(T, hist[k].cell[1]))

\* a thread holds a snapshot whose value is no longer the cell's: the cell
\* was written after the load_linked returned, and loaded since
C29_Witness ==
    \E t, u \in Threads :
        /\ ll[t].kind = "ll"
        /\ Len(hist) > ll[t].at
        /\ get(ll[t]) # LoadValue
        /\ ret[u].op = "load" /\ ret[u].opno > ll[t].rops

\* the snapshot consumed by t's last conditional store was taken while the
\* cell was in its k-th state
FromState(t, k) ==
    /\ CondDone(t)
    /\ lastsc[t].used.from = k
    /\ lastsc[t].used.at = k

\* the write that ended the k-th state is a conditional store succeeding
\* on a snapshot of that state
WinnerFrom(k) ==
    /\ Len(hist) > k
    /\ hist[k].kind # "scval"
    /\ hist[k + 1].kind = (IF backend = "generic" THEN "scval" ELSE "sc")

\* C30: at most one winner.  When several threads hold snapshots taken from
\* the same cell state and each attempts store_conditional, no direct
\* store being involved, exactly one attempt from that state succeeds and
\* every other one fails, in every interleaving.
C30_ExactlyOneWinner ==
    \A t, u \in Racers :
        \A k \in 1 .. Len(hist) :
            (t # u /\ FromState(t, k) /\ FromState(u, k)) =>
                /\ ~(lastsc[t].succ /\ lastsc[u].succ)
                /\ WinnerFrom(k)

\* C31: system-wide progress of retry loops.  In a workload that writes only
\* through load_linked / store_conditional, whenever a store_conditional
\* fails, a store_conditional has succeeded since the load_linked (or the
\* failed attempt) that produced its snapshot started.  The thread itself
\* makes no call between that start and its attempt, so that the success
\* is another thread's.
C31_FailureMeansProgress ==
    \A t \in Threads :
        (CondDone(t) /\ ~lastsc[t].succ) =>
            \E k \in (lastsc[t].used.from + 1) .. lastsc[t].casat :
                hist[k].kind = "sc"

\* a thread failed on the snapshot of load_linked, retried on the snapshot
\* that failure returned, and failed again
C31_Witness ==
    \E t \in Threads :
        /\ CondDone(t)
        /\ ~lastsc[t].succ
        /\ lastsc[t].used.kind = "retry"

\* C32: the concurrent increment workload terminates.  With NumThreads
\* threads each performing NumRun retry-loop increments, under fair
\* scheduling every thread eventually completes all of its increments and
\* stays done: no thread retries for ever.
C32_IncrementTerminates == <>[]AllJoined

\* all threads have joined after every one of them had to retry in its
\* last increment
C32_Witness ==
    /\ AllJoined
    /\ \A t \in Threads : lastsc[t].used.kind = "retry"

\* the values handed to the cell so far: the one passed to new and those
\* passed to a store_direct, an exchange_direct or a successful
\* conditional store that took effect
Written == {hist[k].x : k \in 1 .. Len(hist)}

\* the words of those values
WrittenWords == {to_usize(T, x) : x \in Written}

Exchanged(t) == ret[t].op = "exchange_direct"

\* C34: concurrent exchanges hand each value out once.  When the threads
\* write the cell only through exchange_direct, with pairwise distinct
\* values, no value is returned by two exchange_direct calls, every
\* returned value is the initial one or a written one, and once all calls
\* have returned, the values returned together with the cell's final value
\* are exactly the initial value and the written values.
C34_ExchangesHandOutOnce ==
    /\ \A t, u \in Racers :
          (t # u /\ Exchanged(t) /\ Exchanged(u)) => ret[t].val # ret[u].val
    /\ \A t \in Racers :
          Exchanged(t) =>
              /\ ret[t].val \in {hist[1].x} \cup {XchgValue(u) : u \in Racers}
              /\ ret[t].val # XchgValue(t)
    /\ (\A t \in Racers : Exchanged(t)) =>
          {ret[t].val : t \in Racers} \cup {LoadValue}
            = {hist[1].x} \cup {XchgValue(t) : t \in Racers}

\* all threads have exchanged, and the cell does not hold the value of the
\* thread that called last
C34_Witness ==
    /\ \A t \in Racers : Exchanged(t)
    /\ \E t \in Racers : opno[t] = nops /\ LoadValue # XchgValue(t)

====
